---- MODULE Spec2Model ----
(***************************************************************************)
(* FocusTools REST backend (src/server/server.js): seven route handlers    *)
(* over two collections of a document store, Tasks and Sessions.           *)
(*                                                                         *)
(* The store is shared by all requests.  A handler that makes one store    *)
(* call is one atomic step (it touches no shared state before or after     *)
(* the call).  POST /api/sessions makes two store calls (Task.findById,    *)
(* then Session.save) and GET /api/sessions makes two (Session.find, then  *)
(* the populate query); each is two steps with the request's context held  *)
(* in `pending` between them, so that other requests interleave.           *)
(*                                                                         *)
(* Every store call may fail (`fail`): the driver throws an Error.         *)
(*                                                                         *)
(* `resp` observes the response a step sends; Flush clears it before the   *)
(* next step, which orders the observations and leaves the interleavings   *)
(* of the store calls as they are.                                         *)
(*                                                                         *)
(* The schemas live in models/Task.js and models/Session.js; what they     *)
(* cast and validate (TaskTitleSetter, TaskTitleValid, SessionValid)       *)
(* follows the data model of the specification.                            *)
(***************************************************************************)
EXTENDS Integers, Sequences, FiniteSets, TLC

\* ------------------------------------------------------------- bounds
MaxTasks    == 2   \* Tasks ever inserted
MaxSessions == 1   \* Sessions ever inserted
MaxTitleLen == 2   \* characters of a title in a request body
MaxInflight == 1   \* requests suspended between their two store calls

\* ------------------------------------------------------- JSON values
\* A JSON value of a request body is a record [k, s]: k is its JavaScript
\* type, s its characters when it is a string (and what String(v) gives for
\* the number).
Chars == {" ", "a"}
Strings == UNION {[1..n -> Chars] : n \in 0..MaxTitleLen}
Str(s) == [k |-> "string", s |-> s]
Undefined == [k |-> "undefined", s |-> <<>>]
Null == [k |-> "null", s |-> <<>>]
Num == [k |-> "number", s |-> <<"5">>]
TitleVals == {Undefined, Null, Num} \cup {Str(s) : s \in Strings}
\* completed in a body: absent, true or false
CompletedVals == {"undefined", "true", "false"}

\* String.prototype.trim
RECURSIVE TrimStart(_)
TrimStart(s) ==
  IF s = <<>> THEN s
  ELSE IF Head(s) = " " THEN TrimStart(Tail(s)) ELSE s

RECURSIVE TrimEnd(_)
TrimEnd(s) ==
  IF s = <<>> THEN s
  ELSE IF s[Len(s)] = " " THEN TrimEnd(SubSeq(s, 1, Len(s) - 1)) ELSE s

Trim(s) == TrimEnd(TrimStart(s))

\* JavaScript !v for a body value: undefined, null and "" are falsy
Falsy(v) == v.k \in {"undefined", "null"} \/ (v.k = "string" /\ v.s = <<>>)

\* -------------------------------------------------------- identifiers
\* Stored Tasks get the identifiers 1, 2, ... in order of insertion.
\* An identifier the store has not assigned (yet) is well-formed and names no
\* Task.
BadId == -1         \* a string that is no ObjectId ("abc")
UndefinedId == -2   \* no identifier: taskId absent from a Session body
PathIds == {BadId} \cup (1..MaxTasks)

\* mongoose.Types.ObjectId.isValid(id)
IsValidObjectId(id) == id > 0

\* ----------------------------------------------------- Session values
\* duration in a body: absent, the numbers 0 and 25, a non-numeric string
DurUndefined == [k |-> "undefined", n |-> 0]
DurNum(n) == [k |-> "number", n |-> n]
DurText == [k |-> "string", n |-> 0]
DurationVals == {DurUndefined, DurNum(0), DurNum(25), DurText}
\* startTime in a body: absent, an ISO timestamp, a string that is no date
StartTimeVals == {"undefined", "2024-01-01T00:00:00Z", "soon"}

TaskBodies == [title : TitleVals, completed : CompletedVals]
\* A PUT body is handed to the store as the update document: its fields are
\* top-level ({title: ..}) or inside an update operator ({$set: {title: ..}}).
UpdateBodies == [set : BOOLEAN, title : TitleVals, completed : CompletedVals]
SessionBodies ==
  [taskId : {UndefinedId} \cup PathIds, duration : DurationVals,
   startTime : StartTimeVals, completed : CompletedVals]

NoTaskBody == [title |-> Undefined, completed |-> "undefined"]

\* ---------------------------------------------------------- the state
VARIABLES
  tasks,     \* the Task collection: identifier -> [title, completed]
  nextId,    \* the identifier the next inserted Task gets
  sessions,  \* the Session collection, in insertion order
  pending,   \* contexts of the requests suspended at their second store call
  created,   \* history: the Sessions answered 201, in order
  resp       \* the response sent by the last step (op "none": none sent)

vars == <<tasks, nextId, sessions, pending, created, resp>>

NoResp ==
  [op |-> "none", status |-> 0, json |-> FALSE, error |-> "", id |-> UndefinedId,
   body |-> NoTaskBody, doc |-> <<>>, threw |-> FALSE, at |-> "", seen |-> 0]

\* res.status(status).json(...) of operation op: error is the body's error
\* category ("" on success), id and body the request's path id and body, doc
\* the documents returned, threw whether a store call of the request failed,
\* at the place of the handler that answered.
Reply(op, status, error, id, body, doc, threw, at) ==
  [op |-> op, status |-> status, json |-> TRUE, error |-> error, id |-> id,
   body |-> body, doc |-> doc, threw |-> threw, at |-> at, seen |-> 0]

Init ==
  /\ tasks = <<>>
  /\ nextId = 1
  /\ sessions = <<>>
  /\ pending = <<>>
  /\ created = <<>>
  /\ resp = NoResp

\* The JSON of a stored Task
TaskDoc(id) ==
  [id |-> id, title |-> tasks[id].title, completed |-> tasks[id].completed]

\* Task.findById(id): the document, or none (null)
TaskFindById(id) == IF id \in DOMAIN tasks THEN <<TaskDoc(id)>> ELSE <<>>

\* ------------------------------------------------------ models/Task.js
\* title: String with trim: a number is cast to its digits, a string trimmed
TaskTitleSetter(v) ==
  IF v.k = "number" THEN Str(v.s)
  ELSE IF v.k = "string" THEN Str(Trim(v.s))
  ELSE v

\* title: required: a non-empty string
TaskTitleValid(v) == v.k = "string" /\ v.s # <<>>

\* --------------------------------------------------- the catch blocks
CatchCreateTask(name) ==
  IF name = "ValidationError"
  THEN [status |-> 400, error |-> "Validation error"]
  ELSE [status |-> 500, error |-> "Server error"]

CatchUpdateTask(name) ==
  IF name = "ValidationError"
  THEN [status |-> 400, error |-> "Validation error"]
  ELSE [status |-> 500, error |-> "Server error"]

\* (a catch block that does not tell a ValidationError from other errors)
CatchCreateSessionAll500(name) == [status |-> 500, error |-> "Server error"]

CatchCreateSession(name) ==
  IF name = "ValidationError"
  THEN [status |-> 400, error |-> "Validation error"]
  ELSE [status |-> 500, error |-> "Server error"]

\* The catch blocks of GET /api/tasks, GET /api/tasks/:id,
\* DELETE /api/tasks/:id and GET /api/sessions
CatchServerError(name) == [status |-> 500, error |-> "Server error"]

\* ----------------------------------------------------- express.json()
\* A body that is not JSON: the middleware passes its SyntaxError to next();
\* no error-handling middleware is registered, so Express's own handler answers
\* with the error's status, 400, and an HTML page.  No route handler runs: the
\* response is the middleware's (op "express.json", at the route requested).
BodyOps == {"POST /api/tasks", "PUT /api/tasks/:id", "POST /api/sessions"}

JsonParseError ==
  /\ resp.op = "none"
  /\ \E route \in BodyOps :
       resp' = [NoResp EXCEPT !.op = "express.json", !.status = 400, !.at = route]
  /\ UNCHANGED <<tasks, nextId, sessions, pending, created>>

\* ------------------------------------------------------ POST /api/tasks
\* if (!title || title.trim() === ''): "400", or the TypeError of calling
\* trim on a value that has none, or "ok"
CreateTaskCheck(title) ==
  IF Falsy(title) THEN "400"
  ELSE IF title.k # "string" THEN "TypeError"
  ELSE IF Trim(title.s) = <<>> THEN "400"
  ELSE "ok"

\* completed || false
OrFalse(c) == c = "true"

CreateTask ==
  \E body \in TaskBodies, fail \in BOOLEAN :
    LET op == "POST /api/tasks"
        chk == CreateTaskCheck(body.title)
        title == TaskTitleSetter(Str(Trim(body.title.s)))
        newTask == [title |-> title.s, completed |-> OrFalse(body.completed)]
        caught(name, at) ==
          Reply(op, CatchCreateTask(name).status, CatchCreateTask(name).error,
                UndefinedId, body, <<>>, name = "Error", at)
    IN
    /\ resp.op = "none"
    /\ UNCHANGED <<sessions, pending, created>>
    /\ IF chk = "400" THEN
         /\ resp' = Reply(op, 400, "Validation error", UndefinedId, body, <<>>,
                          FALSE, "validate")
         /\ UNCHANGED <<tasks, nextId>>
       ELSE IF chk = "TypeError" THEN
         /\ resp' = caught("TypeError", "validate")
         /\ UNCHANGED <<tasks, nextId>>
       ELSE IF ~TaskTitleValid(title) THEN
         /\ resp' = caught("ValidationError", "save")
         /\ UNCHANGED <<tasks, nextId>>
       ELSE IF fail THEN
         /\ resp' = caught("Error", "save")
         /\ UNCHANGED <<tasks, nextId>>
       ELSE
         /\ nextId <= MaxTasks
         /\ tasks' = (nextId :> newTask) @@ tasks
         /\ nextId' = nextId + 1
         /\ resp' = Reply(op, 201, "", nextId, body,
                          <<[id |-> nextId, title |-> newTask.title,
                             completed |-> newTask.completed]>>, FALSE, "save")

\* ------------------------------------------------------- GET /api/tasks
\* Task.find(): every stored Task, in the store's order (by identifier)
TaskFind ==
  [i \in 1..Cardinality(DOMAIN tasks) |->
     TaskDoc(CHOOSE id \in DOMAIN tasks :
               Cardinality({j \in DOMAIN tasks : j <= id}) = i)]

ListTasks ==
  \E fail \in BOOLEAN :
    LET op == "GET /api/tasks" IN
    /\ resp.op = "none"
    /\ UNCHANGED <<tasks, nextId, sessions, pending, created>>
    /\ resp' = IF fail
               THEN Reply(op, CatchServerError("Error").status,
                          CatchServerError("Error").error, UndefinedId, NoTaskBody,
                          <<>>, TRUE, "find")
               ELSE Reply(op, 200, "", UndefinedId, NoTaskBody, TaskFind, FALSE, "find")

\* --------------------------------------------------- GET /api/tasks/:id
\* if (!task) 404, else 200
GetTaskStatus(task) == IF task = <<>> THEN 404 ELSE 200

GetTask ==
  \E id \in PathIds, fail \in BOOLEAN :
    LET op == "GET /api/tasks/:id"
        task == TaskFindById(id)
    IN
    /\ resp.op = "none"
    /\ UNCHANGED <<tasks, nextId, sessions, pending, created>>
    /\ resp' =
         IF ~IsValidObjectId(id)
         THEN Reply(op, 404, "Task not found", id, NoTaskBody, <<>>, FALSE, "validate")
         ELSE IF fail
         THEN Reply(op, CatchServerError("Error").status,
                    CatchServerError("Error").error, id, NoTaskBody, <<>>, TRUE, "find")
         ELSE IF GetTaskStatus(task) = 404
         THEN Reply(op, 404, "Task not found", id, NoTaskBody, <<>>, FALSE, "find")
         ELSE Reply(op, 200, "", id, NoTaskBody, task, FALSE, "find")

\* --------------------------------------------------- PUT /api/tasks/:id
\* updates.title: the body's top-level title
TopTitle(updates) == IF updates.set THEN Undefined ELSE updates.title

\* (the blank-title branch answering like the identifier branch above it)
UpdateTaskCheckNotFound(id, updates) ==
  IF ~IsValidObjectId(id) THEN "404"
  ELSE IF TopTitle(updates).k = "undefined" THEN "ok"
  ELSE IF TopTitle(updates).k # "string" THEN "TypeError"
  ELSE IF Trim(TopTitle(updates).s) = <<>> THEN "404"
  ELSE "ok"

\* The handler's checks before the store call: "404" for a malformed id,
\* "400" for a blank title, the TypeError of calling trim on a title that has
\* none (null, a number), or "ok"
UpdateTaskCheck(id, updates) ==
  IF ~IsValidObjectId(id) THEN "404"
  ELSE IF TopTitle(updates).k = "undefined" THEN "ok"
  ELSE IF TopTitle(updates).k # "string" THEN "TypeError"
  ELSE IF Trim(TopTitle(updates).s) = <<>> THEN "400"
  ELSE "ok"

\* (an update without validators)
RunValidatorsOff == FALSE

\* The option runValidators: true of findByIdAndUpdate
RunValidators == TRUE

\* Update validators: the title the update sets passes the schema
UpdateValid(updates) ==
  \/ ~RunValidators
  \/ updates.title.k = "undefined"
  \/ TaskTitleValid(TaskTitleSetter(updates.title))

\* (an update that replaces the document: fields left out get their defaults)
ApplyReplace(task, updates) ==
  [title |-> IF updates.title.k = "undefined" THEN task.title
             ELSE TaskTitleSetter(updates.title).s,
   completed |-> updates.completed = "true"]

\* The document after findByIdAndUpdate: the fields of the update are set
\* ($set), the others kept
ApplyUpdate(task, updates) ==
  [title |-> IF updates.title.k = "undefined" THEN task.title
             ELSE TaskTitleSetter(updates.title).s,
   completed |-> IF updates.completed = "undefined" THEN task.completed
                 ELSE updates.completed = "true"]

\* if (!updatedTask) 404, else 200
UpdateTaskStatus(updatedTask) == IF updatedTask = <<>> THEN 404 ELSE 200

UpdateTask ==
  \E id \in PathIds, updates \in UpdateBodies, fail \in BOOLEAN :
    LET op == "PUT /api/tasks/:id"
        chk == UpdateTaskCheck(id, updates)
        caught(name, at) ==
          Reply(op, CatchUpdateTask(name).status, CatchUpdateTask(name).error,
                id, updates, <<>>, name = "Error", at)
        new == ApplyUpdate(tasks[id], updates)
    IN
    /\ resp.op = "none"
    /\ UNCHANGED <<nextId, sessions, pending, created>>
    /\ IF chk = "404" THEN
         /\ resp' = Reply(op, 404, "Task not found", id, updates, <<>>, FALSE, "validate")
         /\ UNCHANGED tasks
       ELSE IF chk = "400" THEN
         /\ resp' = Reply(op, 400, "Validation error", id, updates, <<>>, FALSE, "validate")
         /\ UNCHANGED tasks
       ELSE IF chk = "TypeError" THEN
         /\ resp' = caught("TypeError", "validate")
         /\ UNCHANGED tasks
       ELSE IF ~UpdateValid(updates) THEN
         /\ resp' = caught("ValidationError", "update")
         /\ UNCHANGED tasks
       ELSE IF fail THEN
         /\ resp' = caught("Error", "update")
         /\ UNCHANGED tasks
       ELSE IF UpdateTaskStatus(TaskFindById(id)) = 404 THEN
         /\ resp' = Reply(op, 404, "Task not found", id, updates, <<>>, FALSE, "update")
         /\ UNCHANGED tasks
       ELSE
         /\ tasks' = [tasks EXCEPT ![id] = new]
         /\ resp' = Reply(op, 200, "", id, updates,
                          <<[id |-> id, title |-> new.title,
                             completed |-> new.completed]>>, FALSE, "update")

\* ------------------------------------------------ DELETE /api/tasks/:id
\* (the handler without its if (!deletedTask) branch)
DeleteTaskStatusNoCheck(deletedTask) == 200

\* if (!deletedTask) 404, else 200
DeleteTaskStatus(deletedTask) == IF deletedTask = <<>> THEN 404 ELSE 200

DeleteTask ==
  \E id \in PathIds, fail \in BOOLEAN :
    LET op == "DELETE /api/tasks/:id"
        deletedTask == TaskFindById(id)
    IN
    /\ resp.op = "none"
    /\ UNCHANGED <<nextId, sessions, pending, created>>
    /\ IF ~IsValidObjectId(id) THEN
         /\ resp' = Reply(op, 404, "Task not found", id, NoTaskBody, <<>>, FALSE, "validate")
         /\ UNCHANGED tasks
       ELSE IF fail THEN
         /\ resp' = Reply(op, CatchServerError("Error").status,
                          CatchServerError("Error").error, id, NoTaskBody, <<>>,
                          TRUE, "delete")
         /\ UNCHANGED tasks
       ELSE IF DeleteTaskStatus(deletedTask) = 404 THEN
         /\ resp' = Reply(op, 404, "Task not found", id, NoTaskBody, <<>>, FALSE, "delete")
         /\ UNCHANGED tasks
       ELSE
         /\ tasks' = [i \in DOMAIN tasks \ {id} |-> tasks[i]]
         /\ resp' = Reply(op, 200, "", id, NoTaskBody, deletedTask, FALSE, "delete")

\* --------------------------------------------------- models/Session.js
\* duration: Number, startTime: Date: the values the schema can cast
SessionValid(body) ==
  /\ body.duration.k = "number"
  /\ body.startTime = "2024-01-01T00:00:00Z"

\* --------------------------------------------------- POST /api/sessions
\* JavaScript !v for the fields of a Session body
FalsyId(id) == id = UndefinedId
FalsyDuration(d) == d.k = "undefined" \/ (d.k = "number" /\ d.n = 0)
FalsyStartTime(st) == st = "undefined"

\* (the checks without the ObjectId format check)
CreateSessionCheckNoFormat(body) ==
  IF FalsyId(body.taskId) THEN "400"
  ELSE IF FalsyDuration(body.duration) THEN "400"
  ELSE IF FalsyStartTime(body.startTime) THEN "400"
  ELSE "ok"

\* if (!taskId) .. if (!duration) .. if (!startTime) ..
\* if (!mongoose.Types.ObjectId.isValid(taskId)) ..
CreateSessionCheck(body) ==
  IF FalsyId(body.taskId) THEN "400"
  ELSE IF FalsyDuration(body.duration) THEN "400"
  ELSE IF FalsyStartTime(body.startTime) THEN "400"
  ELSE IF ~IsValidObjectId(body.taskId) THEN "400"
  ELSE "ok"

\* if (!taskExists) 400
TaskExistsStatus(taskExists) == IF taskExists = <<>> THEN 400 ELSE 0

\* completed !== undefined ? completed : true
OrTrue(c) == c # "false"

\* new Session({taskId, duration, startTime, completed})
NewSession(body) ==
  [taskId |-> body.taskId, duration |-> body.duration.n,
   startTime |-> body.startTime, completed |-> OrTrue(body.completed)]

NoSessionBody ==
  [taskId |-> UndefinedId, duration |-> DurUndefined, startTime |-> "undefined",
   completed |-> "undefined"]

Creating == {i \in DOMAIN pending : pending[i].op = "POST /api/sessions"}
Listing == {i \in DOMAIN pending : pending[i].op = "GET /api/sessions"}

Remove(seq, i) == [j \in 1..(Len(seq) - 1) |-> IF j < i THEN seq[j] ELSE seq[j + 1]]

\* The handler up to its first await: the checks, then Task.findById(taskId)
CreateSessionFind ==
  \E body \in SessionBodies, fail \in BOOLEAN :
    LET op == "POST /api/sessions"
        caught(name) ==
          Reply(op, CatchCreateSession(name).status, CatchCreateSession(name).error,
                UndefinedId, body, <<>>, name = "Error", "find")
    IN
    /\ resp.op = "none"
    /\ UNCHANGED <<tasks, nextId, sessions, created>>
    /\ IF CreateSessionCheck(body) = "400" THEN
         /\ resp' = Reply(op, 400, "Validation error", UndefinedId, body, <<>>,
                          FALSE, "validate")
         /\ UNCHANGED pending
       ELSE IF ~IsValidObjectId(body.taskId) THEN
         \* findById cannot cast the identifier
         /\ resp' = caught("CastError")
         /\ UNCHANGED pending
       ELSE IF fail THEN
         /\ resp' = caught("Error")
         /\ UNCHANGED pending
       ELSE IF TaskExistsStatus(TaskFindById(body.taskId)) = 400 THEN
         /\ resp' = Reply(op, 400, "Validation error", UndefinedId, body, <<>>,
                          FALSE, "find")
         /\ UNCHANGED pending
       ELSE
         /\ Len(pending) < MaxInflight
         /\ Len(sessions) + Cardinality(Creating) < MaxSessions
         /\ pending' = Append(pending, [op |-> op, body |-> body, found |-> <<>>,
                                        seen |-> 0])
         /\ resp' = NoResp

\* (a save that looks the Task up again and refuses when it is gone)
CreateSessionSaveChecked ==
  \E i \in Creating, fail \in BOOLEAN :
    LET op == "POST /api/sessions"
        body == pending[i].body
        caught(name) ==
          Reply(op, CatchCreateSession(name).status, CatchCreateSession(name).error,
                UndefinedId, body, <<>>, name = "Error", "save")
    IN
    /\ resp.op = "none"
    /\ pending' = Remove(pending, i)
    /\ UNCHANGED <<tasks, nextId>>
    /\ IF ~SessionValid(body) THEN
         /\ resp' = caught("ValidationError")
         /\ UNCHANGED <<sessions, created>>
       ELSE IF fail THEN
         /\ resp' = caught("Error")
         /\ UNCHANGED <<sessions, created>>
       ELSE IF body.taskId \notin DOMAIN tasks THEN
         /\ resp' = Reply(op, 400, "Validation error", UndefinedId, body, <<>>,
                          FALSE, "save")
         /\ UNCHANGED <<sessions, created>>
       ELSE
         /\ sessions' = Append(sessions, NewSession(body))
         /\ created' = Append(created, NewSession(body))
         /\ resp' = Reply(op, 201, "", UndefinedId, body, <<NewSession(body)>>,
                          FALSE, "save")

\* The handler from its first await on: new Session(..), then save()
CreateSessionSave ==
  \E i \in Creating, fail \in BOOLEAN :
    LET op == "POST /api/sessions"
        body == pending[i].body
        caught(name) ==
          Reply(op, CatchCreateSession(name).status, CatchCreateSession(name).error,
                UndefinedId, body, <<>>, name = "Error", "save")
    IN
    /\ resp.op = "none"
    /\ pending' = Remove(pending, i)
    /\ UNCHANGED <<tasks, nextId>>
    /\ IF ~SessionValid(body) THEN
         /\ resp' = caught("ValidationError")
         /\ UNCHANGED <<sessions, created>>
       ELSE IF fail THEN
         /\ resp' = caught("Error")
         /\ UNCHANGED <<sessions, created>>
       ELSE
         /\ sessions' = Append(sessions, NewSession(body))
         /\ created' = Append(created, NewSession(body))
         /\ resp' = Reply(op, 201, "", UndefinedId, body, <<NewSession(body)>>,
                          FALSE, "save")

\* ---------------------------------------------------- GET /api/sessions
\* (a populate that drops the Sessions whose Task is gone)
RECURSIVE PopulateInner(_)
PopulateInner(found) ==
  IF found = <<>> THEN <<>>
  ELSE IF Head(found).taskId \in DOMAIN tasks
  THEN <<[session |-> Head(found), task |-> TaskFindById(Head(found).taskId)]>>
         \o PopulateInner(Tail(found))
  ELSE PopulateInner(Tail(found))

\* .populate('taskId'): each Session's taskId replaced by the Task it names,
\* or by null when no such Task is stored
Populate(found) ==
  [i \in 1..Len(found) |->
     [session |-> found[i], task |-> TaskFindById(found[i].taskId)]]

\* Session.find()
ListSessionsFind ==
  \E fail \in BOOLEAN :
    LET op == "GET /api/sessions" IN
    /\ resp.op = "none"
    /\ UNCHANGED <<tasks, nextId, sessions, created>>
    /\ IF fail THEN
         /\ resp' = Reply(op, CatchServerError("Error").status,
                          CatchServerError("Error").error, UndefinedId, NoSessionBody,
                          <<>>, TRUE, "find")
         /\ UNCHANGED pending
       ELSE
         /\ Len(pending) < MaxInflight
         /\ pending' = Append(pending, [op |-> op, body |-> NoSessionBody,
                                        found |-> sessions, seen |-> Len(created)])
         /\ resp' = NoResp

\* the populate query, then res.status(200).json(sessions)
ListSessionsPopulate ==
  \E i \in Listing, fail \in BOOLEAN :
    LET op == "GET /api/sessions" IN
    /\ resp.op = "none"
    /\ pending' = Remove(pending, i)
    /\ UNCHANGED <<tasks, nextId, sessions, created>>
    /\ resp' =
         IF fail
         THEN Reply(op, CatchServerError("Error").status,
                    CatchServerError("Error").error, UndefinedId, NoSessionBody,
                    <<>>, TRUE, "populate")
         ELSE [Reply(op, 200, "", UndefinedId, NoSessionBody,
                     Populate(pending[i].found), FALSE, "populate")
                 EXCEPT !.seen = pending[i].seen]

\* ------------------------------------------------------------ responses
\* resp is an observation of the step just taken: the response is written to
\* the socket and the callback returns before the event loop runs the next
\* one.  Flush changes nothing of the store or of the suspended requests.
Flush ==
  /\ resp.op # "none"
  /\ resp' = NoResp
  /\ UNCHANGED <<tasks, nextId, sessions, pending, created>>

\* The identifiers of the Tasks deleted so far
Deleted == {i \in 1..(nextId - 1) : i \notin DOMAIN tasks}

Next ==
  \/ JsonParseError
  \/ CreateTask
  \/ ListTasks
  \/ GetTask
  \/ UpdateTask
  \/ DeleteTask
  \/ CreateSessionFind
  \/ CreateSessionSave
  \/ ListSessionsFind
  \/ ListSessionsPopulate
  \/ Flush

Spec == Init /\ [][Next]_vars

\* The Task routes alone.  The Session routes write neither tasks nor nextId
\* (each of their actions leaves both unchanged), so what holds of the Tasks
\* under SpecTasks holds of them under Spec.
NextTasks ==
  \/ JsonParseError
  \/ CreateTask
  \/ ListTasks
  \/ GetTask
  \/ UpdateTask
  \/ DeleteTask
  \/ Flush

SpecTasks == Init /\ [][NextTasks]_vars
\* ================================================================ claims
POST_TASK == "POST /api/tasks"
GET_TASK == "GET /api/tasks/:id"
PUT_TASK == "PUT /api/tasks/:id"
DELETE_TASK == "DELETE /api/tasks/:id"
POST_SESSION == "POST /api/sessions"
GET_SESSIONS == "GET /api/sessions"

IsBlank(v) == v.k = "string" /\ Trim(v.s) = <<>>

C2_SaveIgnoresTasks ==
  (resp.op = POST_SESSION /\ resp.at = "save" /\ ~resp.threw
     /\ SessionValid(resp.body))
  => /\ resp.status = 201
     /\ sessions # <<>>
     /\ sessions[Len(sessions)] = NewSession(resp.body)

\* Create Session has answered 201 and the stored Session names a Task that was
\* deleted between the check and the insert.
C2_Witness ==
  /\ resp.op = POST_SESSION
  /\ resp.status = 201
  /\ resp.body.taskId \in Deleted
  /\ sessions # <<>>
  /\ sessions[Len(sessions)].taskId \notin DOMAIN tasks

\* C3 as stated: a record the store rejects on schema validation is answered
\* 500.
C3_SchemaRejectionIs500 ==
  (resp.op = POST_SESSION /\ resp.at = "save" /\ ~SessionValid(resp.body))
  => resp.status = 500

\* C3 as amended: a record the store rejects on schema validation is answered
\* 400 "Validation error"; a store call that fails otherwise is answered 500
\* "Server error".
C3_SchemaRejectionIs400 ==
  /\ (resp.op = POST_SESSION /\ resp.at = "save" /\ ~SessionValid(resp.body))
     => (resp.status = 400 /\ resp.error = "Validation error" /\ resp.json)
  /\ (resp.op = POST_SESSION /\ resp.threw)
     => (resp.status = 500 /\ resp.error = "Server error" /\ resp.json)

\* A request with a non-numeric duration passed the handler's checks and was
\* rejected by the schema.
C3_Witness ==
  /\ resp.op = POST_SESSION
  /\ resp.at = "save"
  /\ resp.body.duration = DurText
  /\ resp.status = 400

\* C4: Create Session with taskId, duration or startTime missing, a malformed
\* taskId, or a taskId the existence check finds no Task for, is answered 400
\* "Validation error", and adds no Session and changes no Task.
C4_Rejected(r, t) ==
  \/ r.body.taskId = UndefinedId
  \/ r.body.duration.k = "undefined"
  \/ r.body.startTime = "undefined"
  \/ ~IsValidObjectId(r.body.taskId)
  \/ (r.at = "find" /\ ~r.threw /\ r.body.taskId \notin DOMAIN t)

C4_InvalidSessionIs400 ==
  [][(resp'.op = POST_SESSION /\ C4_Rejected(resp', tasks))
     => /\ resp'.status = 400
        /\ resp'.error = "Validation error"
        /\ resp'.json
        /\ sessions' = sessions
        /\ tasks' = tasks]_vars

\* A complete, well-formed request naming a deleted Task has been answered 400.
C4_Witness ==
  /\ resp.op = POST_SESSION
  /\ resp.status = 400
  /\ resp.at = "find"
  /\ resp.body.taskId \in Deleted
  /\ resp.body.duration = DurNum(25)
  /\ resp.body.startTime = "2024-01-01T00:00:00Z"

\* C5: Update Task of an existing Task with a title that is blank after
\* trimming is answered 400 "Validation error" and leaves the Tasks as they were.
C5_BlankTitleIs400 ==
  [][(resp'.op = PUT_TASK /\ resp'.id \in DOMAIN tasks /\ ~resp'.body.set
        /\ IsBlank(resp'.body.title))
     => /\ resp'.status = 400
        /\ resp'.error = "Validation error"
        /\ tasks' = tasks]_vars

\* An update of an existing Task with a whitespace-only title has been refused.
C5_Witness ==
  /\ resp.op = PUT_TASK
  /\ resp.id \in DOMAIN tasks
  /\ ~resp.body.set
  /\ resp.body.title = Str(<<" ">>)
  /\ resp.status = 400

\* C6: an Update Task answered 200 changes, of the Task it names, only the
\* fields its body holds, sets completed to the body's value, and changes no
\* other Task and no Session.
C6_PartialUpdate ==
  [][(resp'.op = PUT_TASK /\ resp'.status = 200)
     => LET id == resp'.id
            b == resp'.body
        IN /\ id \in DOMAIN tasks
           /\ DOMAIN tasks' = DOMAIN tasks
           /\ \A j \in DOMAIN tasks \ {id} : tasks'[j] = tasks[j]
           /\ sessions' = sessions
           /\ nextId' = nextId
           /\ b.title.k = "undefined" => tasks'[id].title = tasks[id].title
           /\ b.completed = "undefined" => tasks'[id].completed = tasks[id].completed
           /\ b.completed # "undefined" => tasks'[id].completed = (b.completed = "true")
           /\ resp'.doc = <<[id |-> id, title |-> tasks'[id].title,
                             completed |-> tasks'[id].completed]>>]_vars

\* The body {completed: true} has been applied to a Task stored beside another
\* Task and a Session.
C6_Witness ==
  /\ resp.op = PUT_TASK
  /\ resp.status = 200
  /\ resp.body = [set |-> FALSE, title |-> Undefined, completed |-> "true"]
  /\ tasks[resp.id].completed
  /\ Cardinality(DOMAIN tasks) = 2
  /\ sessions # <<>>

\* C7 as stated: every Delete Task, Get Task or Update Task on the id of a
\* deleted Task is answered 404 "Task not found" (read in the claim's favour:
\* when the store call of the request does not fail).
C7_DeletedIdIs404 ==
  [][(resp'.op \in {DELETE_TASK, GET_TASK, PUT_TASK} /\ resp'.id \in Deleted
        /\ ~resp'.threw)
     => (resp'.status = 404 /\ resp'.error = "Task not found")]_vars

\* C7 as amended: Delete Task of an existing Task, when the store call does not
\* fail, is answered 200 with the Task's document and removes that Task and no
\* other; a deleted id stays deleted; a request on a deleted id is never
\* answered 200 and changes no Task: Delete Task and Get Task are answered 404
\* "Task not found" (500 when the store call fails); Update Task with a body of
\* plain fields is answered 400 when its title is a blank string and, when it
\* holds no title or a string that is not blank, 404 (500 when the store call
\* fails).
C7_DeletedIdStaysDeleted ==
  [][/\ Deleted \subseteq Deleted'
     /\ (resp'.op = DELETE_TASK /\ resp'.id \in DOMAIN tasks /\ ~resp'.threw)
        => /\ resp'.status = 200
           /\ resp'.doc = <<TaskDoc(resp'.id)>>
           /\ DOMAIN tasks' = DOMAIN tasks \ {resp'.id}
           /\ \A j \in DOMAIN tasks' : tasks'[j] = tasks[j]
     /\ (resp'.op \in {DELETE_TASK, GET_TASK, PUT_TASK} /\ resp'.id \in Deleted)
        => /\ resp'.status \in {400, 404, 500}
           /\ tasks' = tasks
           /\ resp'.status = 404 => resp'.error = "Task not found"
           /\ resp'.threw => resp'.status = 500
           /\ (resp'.op # PUT_TASK /\ ~resp'.threw) => resp'.status = 404
           /\ (resp'.op = PUT_TASK /\ ~resp'.body.set
                 /\ IsBlank(resp'.body.title))
              => (resp'.status = 400 /\ resp'.error = "Validation error")
           /\ (resp'.op = PUT_TASK /\ ~resp'.body.set /\ ~resp'.threw
                 /\ (resp'.body.title.k = "undefined"
                       \/ (resp'.body.title.k = "string"
                             /\ ~IsBlank(resp'.body.title))))
              => resp'.status = 404]_vars

\* A Task has been deleted and a second Delete Task on its id answered 404.
C7_Witness ==
  /\ resp.op = DELETE_TASK
  /\ resp.id \in Deleted
  /\ resp.status = 404

\* C8: Create Session with a taskId naming an existing Task, a numeric duration
\* and a startTime, without store failure, is answered 201 and the Session is
\* stored with those values, completed defaulting to true.
C8_NumericDurationIs201 ==
  (resp.op = POST_SESSION /\ resp.body.taskId \in DOMAIN tasks
     /\ resp.body.duration.k = "number"
     /\ resp.body.startTime = "2024-01-01T00:00:00Z" /\ ~resp.threw)
  => /\ resp.status = 201
     /\ sessions # <<>>
     /\ sessions[Len(sessions)] =
          [taskId |-> resp.body.taskId, duration |-> resp.body.duration.n,
           startTime |-> resp.body.startTime,
           completed |-> (resp.body.completed # "false")]

\* C9: every response that is not a success carries a JSON body {error,
\* message} whose error is "Validation error" with status 400, "Task not found"
\* with 404 or "Server error" with 500.
C9_ErrorsAreStructured ==
  (resp.op # "none" /\ resp.status \notin {200, 201})
  => /\ resp.json
     /\ \/ (resp.error = "Validation error" /\ resp.status = 400)
        \/ (resp.error = "Task not found" /\ resp.status = 404)
        \/ (resp.error = "Server error" /\ resp.status = 500)

\* C10: the stored Sessions are the Sessions answered 201, never changed or
\* removed; List Sessions changes nothing in the store, and answered 200 it
\* returns the Sessions created when it read them, in order, each with the
\* current document of its Task, or none when that Task is deleted.
C10_ListSessions ==
  [][/\ sessions' = created'
     /\ Len(sessions) <= Len(sessions')
     /\ \A i \in 1..Len(sessions) : sessions'[i] = sessions[i]
     /\ (resp'.op = GET_SESSIONS \/ Cardinality(Listing') # Cardinality(Listing))
        => (tasks' = tasks /\ sessions' = sessions /\ nextId' = nextId)
     /\ (resp'.op = GET_SESSIONS /\ resp'.status = 200)
        => /\ Len(resp'.doc) = resp'.seen
           /\ resp'.seen <= Len(created)
           /\ \A i \in 1..Len(resp'.doc) :
                /\ resp'.doc[i].session = created[i]
                /\ resp'.doc[i].task =
                     IF created[i].taskId \in DOMAIN tasks
                     THEN <<TaskDoc(created[i].taskId)>>
                     ELSE <<>>]_vars

\* List Sessions has returned a Session whose Task is deleted, unresolved.
C10_Witness ==
  /\ resp.op = GET_SESSIONS
  /\ resp.status = 200
  /\ Len(resp.doc) >= 1
  /\ resp.doc[1].task = <<>>
  /\ resp.doc[1].session.taskId \in Deleted
====
